---- MODULE Spec2Model ----
(***************************************************************************)
(* Model of nemo/collections/nlp/models/nlp_model.py: the four PTL hooks   *)
(* that NLPModel overrides (init_ddp_connection, configure_ddp, setup,     *)
(* on_before_backward), run inside one process of a distributed job.       *)
(*                                                                         *)
(* Python's None is the empty tuple and a value v that is not None is the  *)
(* one-element tuple <<v>>.  Every hook call records the external calls it *)
(* makes, in program order, in `calls`, and its arguments, return value    *)
(* and exception in `last`.                                                *)
(***************************************************************************)
EXTENDS Integers, Sequences, FiniteSets, TLC

\* ------------------------------------------------------------------ bounds
MaxWorld == 4      \* world sizes 1..MaxWorld
MaxBatch == 1      \* batch indices 0..MaxBatch
MaxDevices == 2    \* GPU ids 0..MaxDevices-1
MaxCalls == 3      \* the counter of mpu.initialize_model_parallel calls saturates here

\* ------------------------------------------------------------ input domains
None == << >>
Some(v) == << v >>

Stages == {"fit", "test", "predict"}
Datasets == {"ds_a", "ds_b"}
Paths == {"ckpt_a", "ckpt_b"}
Optimizers == {"sgd", "adam"}
Modules == {"self", "wrapped"}
\* device_ids as the trainer passes them: a non-empty list of distinct GPU
\* ids, in any order.
DeviceLists ==
  {<<d>> : d \in 0..(MaxDevices - 1)}
    \cup {p \in (0..(MaxDevices - 1)) \X (0..(MaxDevices - 1)) : p[1] # p[2]}

Divides(m, w) == w % m = 0

\* model_parallel_size as the job configures it: None, or a size the
\* library accepts for this world (mpu asserts that it divides the world).
ParallelSizes(w) == {None} \cup {Some(m) : m \in {k \in 1..w : Divides(k, w)}}

\* self.bert_model: None (as __init__ leaves it), a MegatronBertEncoder
\* with its _restore_path, or some other encoder.
Encoders ==
  {None}
    \cup {Some([cls |-> "MegatronBertEncoder", restore_path |-> p]) : p \in Paths}
    \cup {Some([cls |-> "BertEncoder", restore_path |-> "none"])}

DefaultSampler(ds) ==
  [cls |-> "SequentialSampler", dataset |-> ds, num_replicas |-> 0, rank |-> 0]

\* self._train_dl: None until the training data is set up.
DataLoaders ==
  {None} \cup {Some([dataset |-> ds, sampler |-> DefaultSampler(ds)]) : ds \in Datasets}

VARIABLES
  global_rank,    \* this process's index in the job
  world_size,     \* number of processes in the job
  app_state,      \* the AppState singleton
  bert_model,     \* self.bert_model
  train_dl,       \* self._train_dl
  trainer,        \* self._trainer
  ddp_connected,  \* LightningModule.init_ddp_connection has run in this process
  mp_inits,       \* number of mpu.initialize_model_parallel calls so far
  called,         \* names of all external functions called so far
  calls,          \* external calls made by the last hook call, in order
  last            \* the last hook call: hook, args, result, raised

vars ==
  <<global_rank, world_size, app_state, bert_model, train_dl, trainer,
    ddp_connected, mp_inits, called, calls, last>>

\* ------------------------------------------------- external library model
Call(fn, args) == [fn |-> fn, args |-> args]

Min(a, b) == IF a < b THEN a ELSE b

\* megatron.mpu.initialize_model_parallel makes w \div m model parallel
\* groups of m consecutive ranks; the group of process g is the one that
\* holds g (mpu.get_model_parallel_group).
ModelParallelRanks(g, w, m) == [i \in 1..m |-> (g \div m) * m + (i - 1)]

\* ... and m data parallel groups of w \div m ranks with stride m
\* (mpu.get_data_parallel_group).
DataParallelRanks(g, w, m) == [i \in 1..(w \div m) |-> (g % m) + (i - 1) * m]

\* torch.distributed.get_rank(group): the index of this process in group.
get_rank(g, group) == (CHOOSE i \in 1..Len(group) : group[i] = g) - 1

\* Trainer.replace_sampler: the same dataloader rebuilt around the sampler.
replace_sampler(dl, sampler) == [dl EXCEPT !.sampler = sampler]

\* torch.utils.data.distributed.DistributedSampler(dataset, num_replicas, rank)
DistributedSampler(ds, num_replicas, rank) ==
  [cls |-> "DistributedSampler", dataset |-> ds, num_replicas |-> num_replicas, rank |-> rank]

\* LightningDistributedDataParallel(model, device_ids, output_device, process_group)
LightningDistributedDataParallel(model, device_ids, output_device, process_group) ==
  [cls |-> "LightningDistributedDataParallel", module |-> model, device_ids |-> device_ids,
   output_device |-> output_device, process_group |-> process_group, built_by |-> "NLPModel"]

\* LightningModule.configure_ddp(self, model, device_ids): the base class's
\* own wrapper, over the default process group.
LightningModule_configure_ddp(model, device_ids) ==
  [cls |-> "LightningDistributedDataParallel", module |-> model, device_ids |-> device_ids,
   output_device |-> None, process_group |-> None, built_by |-> "LightningModule"]

\* TrainLoop.on_before_backward(self, batch_idx, optimizer): the gradient
\* norm dictionary of this step.
TrainLoop_on_before_backward(batch_idx, optimizer) ==
  [cls |-> "grad_norm_dic", batch_idx |-> batch_idx, optimizer |-> optimizer]

\* ---------------------------------------------------------------- NLPModel
\* `app_state.model_parallel_size is not None`
ModelParallelRequested == app_state.model_parallel_size # None

\* `isinstance(self.bert_model, MegatronBertEncoder)`
IsMegatronBertEncoder(b) == b # None /\ b[1].cls = "MegatronBertEncoder"

\* Mutant: the `model_parallel_group is None` test is dropped.
NeedsModelParallelInit_NoGroupCheck == ModelParallelRequested

\* The two nested conditions of init_ddp_connection.
NeedsModelParallelInit == ModelParallelRequested /\ app_state.model_parallel_group = None

\* Mutant: the assignment of data_parallel_rank is dropped.
InitializedAppState_NoDataRank ==
  LET m == app_state.model_parallel_size[1]
      mpg == ModelParallelRanks(global_rank, world_size, m)
      dpg == DataParallelRanks(global_rank, world_size, m)
  IN [app_state EXCEPT
        !.model_parallel_group = Some(mpg),
        !.data_parallel_group = Some(dpg),
        !.model_parallel_rank = Some(get_rank(global_rank, mpg))]

\* The AppState after the body of the inner `if` of init_ddp_connection.
InitializedAppState ==
  LET m == app_state.model_parallel_size[1]
      mpg == ModelParallelRanks(global_rank, world_size, m)
      dpg == DataParallelRanks(global_rank, world_size, m)
  IN [app_state EXCEPT
        !.model_parallel_group = Some(mpg),
        !.data_parallel_group = Some(dpg),
        !.model_parallel_rank = Some(get_rank(global_rank, mpg)),
        !.data_parallel_rank = Some(get_rank(global_rank, dpg))]

\* Mutant: the base initialization comes after the model parallel one.
init_ddp_connection_calls_BaseLast(is_slurm_managing_tasks) ==
  (IF NeedsModelParallelInit
   THEN <<Call("mpu.initialize_model_parallel", <<app_state.model_parallel_size[1]>>),
          Call("mpu.get_model_parallel_group", <<>>),
          Call("mpu.get_data_parallel_group", <<>>),
          Call("torch.distributed.get_rank", <<InitializedAppState.model_parallel_group>>),
          Call("torch.distributed.get_rank", <<InitializedAppState.data_parallel_group>>)>>
   ELSE <<>>)
    \o <<Call("LightningModule.init_ddp_connection",
              <<global_rank, world_size, is_slurm_managing_tasks>>)>>

\* The external calls of one init_ddp_connection, in program order.
init_ddp_connection_calls(is_slurm_managing_tasks) ==
  <<Call("LightningModule.init_ddp_connection",
         <<global_rank, world_size, is_slurm_managing_tasks>>)>>
    \o (IF NeedsModelParallelInit
        THEN <<Call("mpu.initialize_model_parallel", <<app_state.model_parallel_size[1]>>),
               Call("mpu.get_model_parallel_group", <<>>),
               Call("mpu.get_data_parallel_group", <<>>),
               Call("torch.distributed.get_rank", <<InitializedAppState.model_parallel_group>>),
               Call("torch.distributed.get_rank", <<InitializedAppState.data_parallel_group>>)>>
        ELSE <<>>)

CalledNames(cs) == {cs[i].fn : i \in 1..Len(cs)}

CountCalls(cs, fn) == Cardinality({i \in 1..Len(cs) : cs[i].fn = fn})

init_ddp_connection(is_slurm_managing_tasks) ==
  LET cs == init_ddp_connection_calls(is_slurm_managing_tasks)
  IN /\ ddp_connected' = TRUE
     /\ app_state' = IF NeedsModelParallelInit THEN InitializedAppState ELSE app_state
     /\ mp_inits' = Min(mp_inits + CountCalls(cs, "mpu.initialize_model_parallel"), MaxCalls)
     /\ calls' = cs
     /\ called' = called \cup CalledNames(cs)
     /\ last' = [hook |-> "init_ddp_connection",
                 args |-> <<global_rank, world_size, is_slurm_managing_tasks>>,
                 result |-> None, raised |-> "none"]
     /\ UNCHANGED <<global_rank, world_size, bert_model, train_dl, trainer>>

\* Mutant: the wrapper is given the model parallel group.
configure_ddp_result_ModelGroup(model, device_ids) ==
  IF ModelParallelRequested
  THEN LightningDistributedDataParallel(model, device_ids, Some(device_ids[1]),
                                        app_state.model_parallel_group)
  ELSE LightningModule_configure_ddp(model, device_ids)

\* The value configure_ddp returns.
configure_ddp_result(model, device_ids) ==
  IF ModelParallelRequested
  THEN LightningDistributedDataParallel(model, device_ids, Some(device_ids[1]),
                                        app_state.data_parallel_group)
  ELSE LightningModule_configure_ddp(model, device_ids)

\* Mutant: the wrapper is built whether or not model parallelism is requested.
configure_ddp_calls_AlwaysWrap(model, device_ids) ==
  <<Call("LightningDistributedDataParallel",
         <<model, device_ids, Some(device_ids[1]), app_state.data_parallel_group>>)>>

\* The external calls of one configure_ddp.
configure_ddp_calls(model, device_ids) ==
  IF ModelParallelRequested
  THEN <<Call("LightningDistributedDataParallel",
              <<model, device_ids, Some(device_ids[1]), app_state.data_parallel_group>>)>>
  ELSE <<Call("LightningModule.configure_ddp", <<model, device_ids>>)>>

configure_ddp(model, device_ids) ==
  LET cs == configure_ddp_calls(model, device_ids)
  IN /\ calls' = cs
     /\ called' = called \cup CalledNames(cs)
     /\ last' = [hook |-> "configure_ddp", args |-> <<model, device_ids>>,
                 result |-> Some(configure_ddp_result(model, device_ids)), raised |-> "none"]
     /\ UNCHANGED <<global_rank, world_size, app_state, bert_model, train_dl, trainer,
                    ddp_connected, mp_inits>>

\* Mutant: the `stage == 'fit'` test is dropped.
setup_raised_NoStageCheck(stage) ==
  IF ModelParallelRequested
  THEN IF IsMegatronBertEncoder(bert_model)
       THEN IF train_dl = None THEN "AttributeError"
            ELSE IF app_state.data_parallel_rank = None /\ ~ddp_connected THEN "RuntimeError"
            ELSE IF trainer = None THEN "AttributeError"
            ELSE "none"
       ELSE "NotImplementedError"
  ELSE "none"

\* setup: what the call raises, "none" when it returns.  The guard clause
\* raises NotImplementedError; the other errors come out of the statements
\* of the model parallel branch (`self._train_dl.dataset` on None, the
\* sampler asking torch.distributed for a rank before it is initialized,
\* `self._trainer.replace_sampler` on None).
setup_raised(stage) ==
  IF stage = "fit" /\ ModelParallelRequested
  THEN IF IsMegatronBertEncoder(bert_model)
       THEN IF train_dl = None THEN "AttributeError"
            ELSE IF app_state.data_parallel_rank = None /\ ~ddp_connected THEN "RuntimeError"
            ELSE IF trainer = None THEN "AttributeError"
            ELSE "none"
       ELSE "NotImplementedError"
  ELSE "none"

\* The rank the sampler ends up with: DistributedSampler takes a rank of
\* None to mean torch.distributed.get_rank() of the default group.
SamplerRank ==
  IF app_state.data_parallel_rank = None
  THEN global_rank
  ELSE app_state.data_parallel_rank[1]

\* The sampler built at lines 118-122.
mp_sampler ==
  DistributedSampler(train_dl[1].dataset, app_state.model_parallel_size[1], SamplerRank)

\* Mutant: the weights are restored after the sampler is replaced.
setup_calls_RestoreLast(stage) ==
  IF stage = "fit" /\ ModelParallelRequested /\ IsMegatronBertEncoder(bert_model)
  THEN (IF train_dl = None THEN <<>>
        ELSE <<Call("DistributedSampler",
                    <<train_dl[1].dataset, app_state.model_parallel_size[1],
                      app_state.data_parallel_rank>>)>>
               \o (IF setup_raised(stage) = "none"
                   THEN <<Call("replace_sampler", <<train_dl[1], mp_sampler>>),
                          Call("restore_weights", <<bert_model[1].restore_path>>)>>
                   ELSE <<>>))
  ELSE <<>>

\* The external calls of one setup, in program order, up to the statement
\* that raises.
setup_calls(stage) ==
  IF stage = "fit" /\ ModelParallelRequested /\ IsMegatronBertEncoder(bert_model)
  THEN <<Call("restore_weights", <<bert_model[1].restore_path>>)>>
         \o (IF train_dl = None THEN <<>>
             ELSE <<Call("DistributedSampler",
                         <<train_dl[1].dataset, app_state.model_parallel_size[1],
                           app_state.data_parallel_rank>>)>>
                    \o (IF setup_raised(stage) = "none"
                        THEN <<Call("replace_sampler", <<train_dl[1], mp_sampler>>)>>
                        ELSE <<>>))
  ELSE <<>>

\* Mutant: the sampler is replaced at every stage.
setup_train_dl_AnyStage(stage) ==
  IF ModelParallelRequested /\ IsMegatronBertEncoder(bert_model)
       /\ setup_raised("fit") = "none"
  THEN Some(replace_sampler(train_dl[1], mp_sampler))
  ELSE train_dl

\* self._train_dl after setup.
setup_train_dl(stage) ==
  IF stage = "fit" /\ ModelParallelRequested /\ IsMegatronBertEncoder(bert_model)
       /\ setup_raised(stage) = "none"
  THEN Some(replace_sampler(train_dl[1], mp_sampler))
  ELSE train_dl

setup(stage) ==
  LET cs == setup_calls(stage)
  IN /\ train_dl' = setup_train_dl(stage)
     /\ calls' = cs
     /\ called' = called \cup CalledNames(cs)
     /\ last' = [hook |-> "setup", args |-> <<stage>>, result |-> None,
                 raised |-> setup_raised(stage)]
     /\ UNCHANGED <<global_rank, world_size, app_state, bert_model, trainer,
                    ddp_connected, mp_inits>>

\* The value on_before_backward returns: the model parallel branch falls
\* off the end of the function.
on_before_backward_result(batch_idx, optimizer) ==
  IF ModelParallelRequested
  THEN None
  ELSE Some(TrainLoop_on_before_backward(batch_idx, optimizer))

on_before_backward_calls(batch_idx, optimizer) ==
  IF ModelParallelRequested
  THEN IF IsMegatronBertEncoder(bert_model)
       THEN <<Call("bert_model.parameters", <<>>)>>
       ELSE <<>>
  ELSE <<Call("TrainLoop.on_before_backward", <<batch_idx, optimizer>>)>>

on_before_backward(batch_idx, optimizer) ==
  LET cs == on_before_backward_calls(batch_idx, optimizer)
  IN /\ calls' = cs
     /\ called' = called \cup CalledNames(cs)
     /\ last' = [hook |-> "on_before_backward", args |-> <<batch_idx, optimizer>>,
                 result |-> on_before_backward_result(batch_idx, optimizer),
                 raised |-> "none"]
     /\ UNCHANGED <<global_rank, world_size, app_state, bert_model, train_dl, trainer,
                    ddp_connected, mp_inits>>

\* ------------------------------------------------------------ specification
\* A fresh AppState: only model_parallel_size is configured.
FreshAppState(mps) ==
  [model_parallel_size |-> mps, model_parallel_group |-> None, data_parallel_group |-> None,
   model_parallel_rank |-> None, data_parallel_rank |-> None]

NoCall == [hook |-> "none", args |-> <<>>, result |-> None, raised |-> "none"]

Init ==
  /\ world_size \in 1..MaxWorld
  /\ global_rank \in 0..(world_size - 1)
  /\ app_state \in {FreshAppState(mps) : mps \in ParallelSizes(world_size)}
  /\ bert_model \in Encoders
  /\ train_dl \in DataLoaders
  /\ trainer \in {None, Some("trainer")}
  /\ ddp_connected = FALSE
  /\ mp_inits = 0
  /\ called = {}
  /\ calls = <<>>
  /\ last = NoCall

CallInitDdpConnection == \E s \in BOOLEAN : init_ddp_connection(s)

CallConfigureDdp == \E m \in Modules, d \in DeviceLists : configure_ddp(m, d)

CallSetup == \E st \in Stages : setup(st)

CallOnBeforeBackward ==
  \E b \in 0..MaxBatch, o \in Optimizers : on_before_backward(b, o)

\* The hooks called in any order.
Next ==
  \/ CallInitDdpConnection
  \/ CallConfigureDdp
  \/ CallSetup
  \/ CallOnBeforeBackward

Spec == Init /\ [][Next]_vars

\* The order the trainer keeps: setup is "called after DDP is initialized"
\* (docstring of setup), and so are configure_ddp and the training loop.
TrainerSetup == ddp_connected /\ CallSetup

TrainerConfigureDdp == ddp_connected /\ CallConfigureDdp

TrainerOnBeforeBackward == ddp_connected /\ CallOnBeforeBackward

TrainerNext ==
  \/ CallInitDdpConnection
  \/ TrainerConfigureDdp
  \/ TrainerSetup
  \/ TrainerOnBeforeBackward

TrainerSpec == Init /\ [][TrainerNext]_vars

\* =================================================================== claims
HookNames == {"init_ddp_connection", "configure_ddp", "setup", "on_before_backward"}

BaseNames ==
  {"LightningModule.init_ddp_connection", "LightningModule.configure_ddp",
   "TrainLoop.on_before_backward"}

Indices(cs, fn) == {i \in 1..Len(cs) : cs[i].fn = fn}

GroupFields(a) ==
  <<a.model_parallel_group, a.data_parallel_group, a.model_parallel_rank, a.data_parallel_rank>>

AllSet(a) == \A i \in 1..4 : GroupFields(a)[i] # None

AllNone(a) == \A i \in 1..4 : GroupFields(a)[i] = None

\* C1: a hook call raises NotImplementedError exactly when it is
\* setup('fit') with model_parallel_size not None and bert_model not a
\* MegatronBertEncoder (None included); init_ddp_connection, configure_ddp
\* and on_before_backward raise nothing.
C1_NotImplementedIffGuard ==
  [][/\ (last'.raised = "NotImplementedError")
          <=> (/\ last'.hook = "setup"
               /\ last'.args[1] = "fit"
               /\ app_state.model_parallel_size # None
               /\ ~IsMegatronBertEncoder(bert_model))
     /\ (last'.hook \in HookNames \ {"setup"} => last'.raised = "none")]_vars

C1_Witness ==
  /\ last.hook = "setup"
  /\ last.raised = "NotImplementedError"
  /\ bert_model = None

\* C2: configure_ddp takes one of two paths by model_parallel_size alone:
\* not None, the class's own wrapper of the given model with the given
\* device_ids, output_device device_ids[0] and process_group the current
\* data_parallel_group, without the base call; None, exactly the base
\* class's result, and no wrapper built here.
C2_ConfigureDdpPaths ==
  [][last'.hook = "configure_ddp" =>
       LET model == last'.args[1]
           device_ids == last'.args[2]
           r == last'.result[1]
       IN /\ last'.result # None
          /\ Len(calls') = 1
          /\ IF app_state.model_parallel_size # None
             THEN /\ r.cls = "LightningDistributedDataParallel"
                  /\ r.built_by = "NLPModel"
                  /\ r.module = model
                  /\ r.device_ids = device_ids
                  /\ r.output_device = Some(device_ids[1])
                  /\ r.process_group = app_state.data_parallel_group
                  /\ calls'[1].fn = "LightningDistributedDataParallel"
                  /\ calls'[1].args =
                       <<model, device_ids, Some(device_ids[1]), app_state.data_parallel_group>>
             ELSE /\ r = LightningModule_configure_ddp(model, device_ids)
                  /\ calls'[1].fn = "LightningModule.configure_ddp"
                  /\ calls'[1].args = <<model, device_ids>>]_vars

C2_Witness ==
  /\ last.hook = "configure_ddp"
  /\ app_state.model_parallel_size # None
  /\ app_state.data_parallel_group # None
  /\ Len(last.args[2]) = 2
  /\ last.args[2][1] # last.args[2][2]
  /\ last.result[1].built_by = "NLPModel"

\* C3: with model_parallel_size None no hook sequence calls anything but
\* the three base implementations, writes an AppState field or changes
\* _train_dl; init_ddp_connection, configure_ddp and on_before_backward
\* call exactly their base implementation and setup calls nothing.
C3_NoModelParallelNoEffect ==
  /\ [](app_state.model_parallel_size = None =>
          /\ called \subseteq BaseNames
          /\ mp_inits = 0
          /\ app_state = FreshAppState(None))
  /\ [][app_state.model_parallel_size = None =>
          /\ app_state' = app_state
          /\ train_dl' = train_dl
          /\ (last'.hook = "setup" => calls' = <<>>)
          /\ (last'.hook = "init_ddp_connection" =>
                Len(calls') = 1 /\ calls'[1].fn = "LightningModule.init_ddp_connection")
          /\ (last'.hook = "configure_ddp" =>
                Len(calls') = 1 /\ calls'[1].fn = "LightningModule.configure_ddp")
          /\ (last'.hook = "on_before_backward" =>
                Len(calls') = 1 /\ calls'[1].fn = "TrainLoop.on_before_backward")]_vars

C3_Witness ==
  /\ app_state.model_parallel_size = None
  /\ IsMegatronBertEncoder(bert_model)
  /\ train_dl # None
  /\ called = BaseNames
  /\ last.hook = "setup"
  /\ last.args[1] = "fit"

\* C4: every init_ddp_connection makes the base call once, first, with
\* the hook's own global_rank, world_size and is_slurm_managing_tasks,
\* whatever model_parallel_size is; mpu.initialize_model_parallel and the
\* group and rank queries come after it.
C4_BaseInitFirst ==
  [][last'.hook = "init_ddp_connection" =>
       /\ Len(calls') >= 1
       /\ calls'[1].fn = "LightningModule.init_ddp_connection"
       /\ calls'[1].args = last'.args
       /\ Indices(calls', "LightningModule.init_ddp_connection") = {1}
       /\ \A i \in 1..Len(calls') :
            calls'[i].fn \in {"mpu.initialize_model_parallel", "mpu.get_model_parallel_group",
                              "mpu.get_data_parallel_group", "torch.distributed.get_rank"}
              => i > 1
       /\ ddp_connected']_vars

C4_Witness ==
  /\ last.hook = "init_ddp_connection"
  /\ last.args[3] = FALSE
  /\ Indices(calls, "mpu.initialize_model_parallel") = {2}
  /\ Indices(calls, "torch.distributed.get_rank") = {5, 6}

\* C5: on_before_backward returns the gradient norm dictionary of the
\* default TrainLoop.on_before_backward on every call, whether model
\* parallelism is requested or not.
C5_ReturnsGradNormDict ==
  last.hook = "on_before_backward" =>
    last.result = Some(TrainLoop_on_before_backward(last.args[1], last.args[2]))

\* C6: restore_weights is called only by setup('fit') with model
\* parallelism requested and a MegatronBertEncoder, with the encoder's own
\* _restore_path, before the sampler is replaced in that call, and (setup
\* coming after init_ddp_connection) only when the four group and rank
\* fields of AppState are set.
C6_RestoreWeightsOnlyInSetup ==
  [][\A i \in Indices(calls', "restore_weights") :
       /\ last'.hook = "setup"
       /\ last'.args[1] = "fit"
       /\ app_state.model_parallel_size # None
       /\ IsMegatronBertEncoder(bert_model)
       /\ calls'[i].args = <<bert_model[1].restore_path>>
       /\ \A j \in Indices(calls', "replace_sampler") : i < j
       /\ \A j \in Indices(calls', "DistributedSampler") : i < j
       /\ AllSet(app_state)]_vars

C6_Witness ==
  /\ last.hook = "setup"
  /\ Indices(calls, "restore_weights") = {1}
  /\ Indices(calls, "replace_sampler") = {3}
  /\ AllSet(app_state)

\* C7: setup replaces _train_dl only for stage 'fit' with model
\* parallelism requested and a MegatronBertEncoder; any other call
\* (another stage, no model parallelism, or the NotImplementedError call)
\* leaves _train_dl, bert_model and AppState as they were and does not call
\* restore_weights; a replacement is what replace_sampler returns for the
\* old dataloader and a DistributedSampler over its dataset.
C7_SetupFrame ==
  [][last'.hook = "setup" =>
       LET cond == /\ last'.args[1] = "fit"
                   /\ app_state.model_parallel_size # None
                   /\ IsMegatronBertEncoder(bert_model)
           rs == Indices(calls', "replace_sampler")
       IN /\ (~cond \/ last'.raised = "NotImplementedError") =>
                /\ train_dl' = train_dl
                /\ bert_model' = bert_model
                /\ app_state' = app_state
                /\ Indices(calls', "restore_weights") = {}
                /\ rs = {}
          /\ (train_dl' # train_dl) => rs # {}
          /\ \A i \in rs :
               /\ cond
               /\ calls'[i].args[1] = train_dl[1]
               /\ calls'[i].args[2].cls = "DistributedSampler"
               /\ calls'[i].args[2].dataset = train_dl[1].dataset
               /\ train_dl' = Some(replace_sampler(calls'[i].args[1], calls'[i].args[2]))]_vars

C7_Witness ==
  /\ last.hook = "setup"
  /\ last.raised = "none"
  /\ Indices(calls, "replace_sampler") # {}
  /\ train_dl[1].sampler.cls = "DistributedSampler"

\* C8: in one process mpu.initialize_model_parallel is called at most
\* once, by an init_ddp_connection that finds model_parallel_size not None
\* and model_parallel_group None, with model_parallel_size; once the group
\* is set init_ddp_connection leaves the four fields alone; the other three
\* hooks never write AppState.
C8_InitializeOnce ==
  /\ [](mp_inits <= 1)
  /\ [][/\ \A i \in Indices(calls', "mpu.initialize_model_parallel") :
             /\ last'.hook = "init_ddp_connection"
             /\ app_state.model_parallel_size # None
             /\ app_state.model_parallel_group = None
             /\ calls'[i].args = <<app_state.model_parallel_size[1]>>
        /\ (/\ last'.hook = "init_ddp_connection"
            /\ app_state.model_parallel_size # None
            /\ app_state.model_parallel_group = None)
             => Cardinality(Indices(calls', "mpu.initialize_model_parallel")) = 1
        /\ (last'.hook = "init_ddp_connection" /\ app_state.model_parallel_group # None)
             => GroupFields(app_state') = GroupFields(app_state)
        /\ (last'.hook \in HookNames \ {"init_ddp_connection"})
             => app_state' = app_state
        /\ app_state'.model_parallel_size = app_state.model_parallel_size]_vars

C8_Witness ==
  /\ mp_inits = 1
  /\ last.hook = "init_ddp_connection"
  /\ Len(calls) = 1
  /\ AllSet(app_state)

\* C9: between hook calls the four group and rank fields are all None or
\* all set, and set only if model_parallel_size is not None; so a
\* configure_ddp on the model parallel path after an init_ddp_connection
\* passes a process_group that is not None.
C9_GroupFieldsTogether ==
  /\ AllNone(app_state) \/ AllSet(app_state)
  /\ AllSet(app_state) => app_state.model_parallel_size # None
  /\ (/\ last.hook = "configure_ddp"
      /\ app_state.model_parallel_size # None
      /\ ddp_connected)
       => /\ last.result[1].process_group # None
          /\ calls[1].args[4] # None

C9_Witness ==
  /\ last.hook = "configure_ddp"
  /\ app_state.model_parallel_size # None
  /\ ddp_connected
  /\ AllSet(app_state)

\* data_parallel_rank of process g in a job of w processes with model
\* parallel size m, as init_ddp_connection computes it in that process.
DataParallelRankOf(g, w, m) == get_rank(g, DataParallelRanks(g, w, m))

\* C10: with M dividing W, the DistributedSampler that setup('fit') builds
\* after init_ddp_connection has 0 <= rank < num_replicas, the processes of
\* one model parallel group get the same rank, and the ranks of the job
\* cover every shard 0..num_replicas-1.
C10_SamplerShards ==
  (train_dl # None /\ train_dl[1].sampler.cls = "DistributedSampler") =>
    LET n == train_dl[1].sampler.num_replicas
        r == train_dl[1].sampler.rank
        m == app_state.model_parallel_size[1]
        mates == ModelParallelRanks(global_rank, world_size, m)
    IN /\ r = DataParallelRankOf(global_rank, world_size, m)
       /\ 0 <= r
       /\ r < n
       /\ \A k \in 1..Len(mates) : DataParallelRankOf(mates[k], world_size, m) = r
       /\ \A s \in 0..(n - 1) :
            \E h \in 0..(world_size - 1) : DataParallelRankOf(h, world_size, m) = s

====
